---- MODULE Spec2Model ----
(***************************************************************************)
(* State-machine model of the game-state engine of src/src/App.tsx: the    *)
(* GameState held by useState, the snapshot of it that the last render     *)
(* captured in the event handlers' closures, the menu flag, and the        *)
(* interval created by the timer effect.                                   *)
(*                                                                         *)
(* React scheduling as modelled:                                           *)
(*  - a state update made inside a click handler is rendered (and its      *)
(*    effects run) before the next event is handled;                       *)
(*  - a state update made by the setInterval callback is rendered by a     *)
(*    later task, so a click may be handled between the tick and its       *)
(*    render; the interval does not fire again before that render.         *)
(* A tile is modelled by its value: BlockData.id is read only as a React   *)
(* key (line 358) and never by the handlers, and null is the value 0.      *)
(***************************************************************************)
EXTENDS Integers, Sequences, FiniteSets, TLC

\* ---- configuration imported from './constants' (src/src/App.tsx:22-31) ----
\* The model is an instance of the configuration small enough to enumerate.
GRID_ROWS == 2
GRID_COLS == 2
INITIAL_ROWS == 1
TARGET_MIN == 2
TARGET_MAX == 4
TIME_MODE_SECONDS == 2
\* ---- bounds of the model ----
\* generateRandomBlock draws values from 1..9; the model draws from 1..MaxTileValue
MaxTileValue == 2
\* a MATCH is only taken while the resulting score stays within MaxScore
MaxScore == 90
\* the score of the session in progress that the second specification starts from; the
\* model follows the score from there for another MaxScore points
HighScoreStart == 440

\* ---- scoring configuration imported from './constants' ----
SCORE_PER_BLOCK == 10
SCORE_BONUS_COMBO == 50

Rows == 0 .. (GRID_ROWS - 1)
Cols == 0 .. (GRID_COLS - 1)
TileValues == 1 .. MaxTileValue
Targets == TARGET_MIN .. TARGET_MAX
\* positions a caller may pass to handleBlockClick, one step outside the grid included
ClickRows == -1 .. GRID_ROWS
ClickCols == -1 .. GRID_COLS
\* the rows initGame fills: r from GRID_ROWS - INITIAL_ROWS while r < GRID_ROWS
SeedRowIdx == (GRID_ROWS - INITIAL_ROWS) .. (GRID_ROWS - 1)

\* null cell of Grid = (BlockData | null)[][]
NULL == 0

VARIABLES gameState, rendered, showMenu, timerOn, timerStale, lastEvent, ticksDelivered,
          insertions

vars == <<gameState, rendered, showMenu, timerOn, timerStale, lastEvent, ticksDelivered,
          insertions>>

\* insertions: the rows inserted by ticks since initGame('time'), while the session has had
\* neither a MATCH nor a pause toggle; -1 otherwise
\* lastEvent: the handler that ran last, how it ended, and the position its updater received
NoPos == << >>
Event(op, outcome, pos) == [op |-> op, outcome |-> outcome, pos |-> pos]

\* ---- pure helpers ----

createEmptyGrid == [r \in Rows |-> [c \in Cols |-> NULL]]

\* generateRandomBlock for the drawn value v
generateRandomBlock(v) == v

\* Array.from({ length: GRID_COLS }, () => generateRandomBlock()) for the drawn values vals
NewRow(vals) == [c \in Cols |-> generateRandomBlock(vals[c])]

RowOccupied(grid, r) == \E c \in Cols : grid[r][c] # NULL

\* mutant: the refusal test uses every() where the code uses some()
getNextRowGrid_every(currentGrid, newRow) ==
  IF \A c \in Cols : currentGrid[0][c] # NULL
  THEN [grid |-> currentGrid, gameOver |-> TRUE]
  ELSE [grid |-> [r \in Rows |-> IF r < GRID_ROWS - 1 THEN currentGrid[r + 1] ELSE newRow],
        gameOver |-> FALSE]

\* mutant: the shifting loop stops one row early, at r < GRID_ROWS - 2
getNextRowGrid_shortLoop(currentGrid, newRow) ==
  IF RowOccupied(currentGrid, 0)
  THEN [grid |-> currentGrid, gameOver |-> TRUE]
  ELSE [grid |-> [r \in Rows |-> IF r < GRID_ROWS - 2 THEN currentGrid[r + 1]
                                 ELSE IF r < GRID_ROWS - 1 THEN currentGrid[r] ELSE newRow],
        gameOver |-> FALSE]

getNextRowGrid(currentGrid, newRow) ==
  IF RowOccupied(currentGrid, 0)
  THEN [grid |-> currentGrid, gameOver |-> TRUE]
  ELSE [grid |-> [r \in Rows |-> IF r < GRID_ROWS - 1 THEN currentGrid[r + 1] ELSE newRow],
        gameOver |-> FALSE]

IsSelected(sel, r, c) == \E i \in 1 .. Len(sel) : sel[i].r = r /\ sel[i].c = c

NotAt(r, c, idx) == ~(idx.r = r /\ idx.c = c)

\* mutant: the position is pushed without looking whether it is selected already
Toggle_alwaysPush(sel, r, c) == Append(sel, [r |-> r, c |-> c])

\* filter out (r, c) when selected, push it otherwise
Toggle(sel, r, c) ==
  IF IsSelected(sel, r, c)
  THEN LET keep(idx) == NotAt(r, c, idx) IN SelectSeq(sel, keep)
  ELSE Append(sel, [r |-> r, c |-> c])

RECURSIVE SumOf(_, _)
SumOf(sel, grid) ==
  IF sel = << >> THEN 0
  ELSE grid[Head(sel).r][Head(sel).c] + SumOf(Tail(sel), grid)

ClearSelected(grid, sel) ==
  [r \in Rows |-> [c \in Cols |-> IF IsSelected(sel, r, c) THEN NULL ELSE grid[r][c]]]

IsBlock(cell) == cell # NULL

\* the blocks of a column, top to bottom
ColumnBlocks(grid, col) == SelectSeq([i \in 1 .. GRID_ROWS |-> grid[i - 1][col]], IsBlock)

\* mutant: the refill takes the column's blocks with shift() where the code uses pop()
ApplyGravity_shift(grid) ==
  [row \in Rows |-> [col \in Cols |->
     LET cb == ColumnBlocks(grid, col)
         k  == (GRID_ROWS - 1) - row
     IN IF k < Len(cb) THEN cb[k + 1] ELSE NULL]]

\* mutant: the column's blocks are put back from row 0 downwards
ApplyGravity_fromTop(grid) ==
  [row \in Rows |-> [col \in Cols |->
     LET cb == ColumnBlocks(grid, col)
     IN IF row < Len(cb) THEN cb[row + 1] ELSE NULL]]

\* mutant: the gravity loop is left out
ApplyGravity_none(grid) == grid

\* rows are refilled from the bottom by popping the column's blocks
ApplyGravity(grid) ==
  [row \in Rows |-> [col \in Cols |->
     LET cb == ColumnBlocks(grid, col)
         k  == (GRID_ROWS - 1) - row
     IN IF k < Len(cb) THEN cb[Len(cb) - k] ELSE NULL]]

\* mutant: the combo bonus is granted from three tiles on
Points_fromThree(n) == (n * SCORE_PER_BLOCK) + (IF n >= 3 THEN SCORE_BONUS_COMBO ELSE 0)

\* bonus and points of a MATCH with n selected tiles
Points(n) == (n * SCORE_PER_BLOCK) + (IF n > 3 THEN SCORE_BONUS_COMBO ELSE 0)

\* mutant: the level is the score divided by 500 and rounded up, at least 1
Level_roundedUp(score) == IF score = 0 THEN 1 ELSE (score + 499) \div 500

\* Math.floor(score / 500) + 1
Level(score) == (score \div 500) + 1

Outcome(prev, r, c) ==
  LET s == SumOf(Toggle(prev.selectedIndices, r, c), prev.grid)
  IN IF s = prev.targetSum THEN "MATCH"
     ELSE IF s > prev.targetSum THEN "OVERFLOW" ELSE "PARTIAL"

\* mutant: the OVERFLOW branch also restarts the countdown, as the MATCH branch does
OverflowState_restartsCountdown(prev) ==
  [prev EXCEPT !.selectedIndices = << >>, !.timeLeft = TIME_MODE_SECONDS]

\* the OVERFLOW branch: { ...prev, selectedIndices: [] }
OverflowState(prev) == [prev EXCEPT !.selectedIndices = << >>]

\* the updater passed to setGameState by handleBlockClick
ClickUpdate(prev, r, c, newTarget, vals) ==
  LET newSelected == Toggle(prev.selectedIndices, r, c)
      currentSum  == SumOf(newSelected, prev.grid)
      fallen      == ApplyGravity(ClearSelected(prev.grid, newSelected))
      result      == IF prev.mode = "classic"
                     THEN getNextRowGrid(fallen, NewRow(vals))
                     ELSE [grid |-> fallen, gameOver |-> prev.gameOver]
  IN IF currentSum = prev.targetSum
     THEN [prev EXCEPT !.grid = result.grid,
                       !.selectedIndices = << >>,
                       !.targetSum = newTarget,
                       !.score = prev.score + Points(Len(newSelected)),
                       !.level = Level(prev.score + Points(Len(newSelected))),
                       !.timeLeft = TIME_MODE_SECONDS,
                       !.gameOver = result.gameOver,
                       !.isPaused = IF result.gameOver THEN TRUE ELSE prev.isPaused]
     ELSE IF currentSum > prev.targetSum
     THEN OverflowState(prev)
     ELSE [prev EXCEPT !.selectedIndices = newSelected]

\* mutant: the countdown is taken to be over at timeLeft <= 0
TickUpdate_lateByOne(prev, vals) ==
  IF prev.timeLeft <= 0
  THEN LET result == getNextRowGrid(prev.grid, NewRow(vals))
       IN [prev EXCEPT !.grid = result.grid,
                       !.gameOver = result.gameOver,
                       !.isPaused = IF result.gameOver THEN TRUE ELSE prev.isPaused,
                       !.timeLeft = TIME_MODE_SECONDS]
  ELSE [prev EXCEPT !.timeLeft = prev.timeLeft - 1]

\* the updater passed to setGameState by the interval callback
TickUpdate(prev, vals) ==
  IF prev.timeLeft <= 1
  THEN LET result == getNextRowGrid(prev.grid, NewRow(vals))
       IN [prev EXCEPT !.grid = result.grid,
                       !.gameOver = result.gameOver,
                       !.isPaused = IF result.gameOver THEN TRUE ELSE prev.isPaused,
                       !.timeLeft = TIME_MODE_SECONDS]
  ELSE [prev EXCEPT !.timeLeft = prev.timeLeft - 1]

\* mutant: the new session starts paused, as the state App is mounted with
InitialState_paused(mode, target, seed) ==
  [grid |-> [r \in Rows |-> IF r \in SeedRowIdx THEN seed[r] ELSE createEmptyGrid[r]],
   targetSum |-> target,
   selectedIndices |-> << >>,
   score |-> 0,
   level |-> 1,
   gameOver |-> FALSE,
   mode |-> mode,
   timeLeft |-> TIME_MODE_SECONDS,
   isPaused |-> TRUE]

\* the state initGame passes to setGameState
InitialState(mode, target, seed) ==
  [grid |-> [r \in Rows |-> IF r \in SeedRowIdx THEN seed[r] ELSE createEmptyGrid[r]],
   targetSum |-> target,
   selectedIndices |-> << >>,
   score |-> 0,
   level |-> 1,
   gameOver |-> FALSE,
   mode |-> mode,
   timeLeft |-> TIME_MODE_SECONDS,
   isPaused |-> FALSE]

\* the rows initGame fills, for the drawn values vals
SeedRows(vals) == [r \in SeedRowIdx |-> NewRow(vals[r])]

\* the values Math.random yields for a new row; nothing is drawn when no row is generated
RowDraws(generated) == IF generated THEN [Cols -> TileValues] ELSE {[c \in Cols |-> 1]}

\* the values generateTarget yields; it is called on a MATCH only
TargetDraws(generated) == IF generated THEN Targets ELSE {TARGET_MIN}

\* the click reaches line 78: a MATCH in classic mode whose fallen grid has row 0 free
ClickInserts(prev, r, c) ==
  /\ Outcome(prev, r, c) = "MATCH"
  /\ prev.mode = "classic"
  /\ ~RowOccupied(ApplyGravity(ClearSelected(prev.grid, Toggle(prev.selectedIndices, r, c))), 0)

\* the tick reaches line 78: the countdown is over and row 0 is free
TickInserts(prev) == prev.timeLeft <= 1 /\ ~RowOccupied(prev.grid, 0)

\* handleBlockClick(r, c) gets past its early returns when rd is the rendered state
ClickRuns(rd, r, c) ==
  /\ ~(rd.gameOver \/ rd.isPaused)
  /\ r \in Rows /\ c \in Cols
  /\ rd.grid[r][c] # NULL

\* the state handleBlockClick(r, c) leaves, from the state gs rendered as rd
ClickResult(gs, rd, r, c, newTarget, vals) ==
  IF ClickRuns(rd, r, c) THEN ClickUpdate(gs, r, c, newTarget, vals) ELSE gs

\* the state the next handler sees rendered after that call
ClickRendered(gs, rd, r, c, newTarget, vals) ==
  IF ClickRuns(rd, r, c) THEN ClickUpdate(gs, r, c, newTarget, vals) ELSE rd

\* the score up to which the model follows a session: MaxScore from a new session,
\* HighScoreStart + MaxScore from the session in progress
ScoreCap(score) == IF score < HighScoreStart THEN MaxScore ELSE HighScoreStart + MaxScore

\* ---- the timer effect ----

\* mutant: the effect starts the interval without looking at the mode
TimerWanted_anyMode(gs) == ~gs.isPaused /\ ~gs.gameOver

\* mutant: the effect does not look at gameOver
TimerWanted_untilPaused(gs) == gs.mode = "time" /\ ~gs.isPaused

\* the condition under which the effect creates the interval
TimerWanted(gs) == gs.mode = "time" /\ ~gs.isPaused /\ ~gs.gameOver

DepsChanged(old, new) ==
  \/ old.mode # new.mode
  \/ old.isPaused # new.isPaused
  \/ old.gameOver # new.gameOver

\* a render of gs: the handlers' closures see gs; the effect is cleaned up and re-run
\* only when a dependency changed, otherwise the interval in timerRef keeps running
\* (after an initGame it is then an interval created for the previous session)
Commit(gs, isReset) ==
  /\ rendered' = gs
  /\ IF DepsChanged(rendered, gs)
     THEN timerOn' = TimerWanted(gs) /\ timerStale' = FALSE
     ELSE timerOn' = timerOn /\ timerStale' = (timerStale \/ (isReset /\ timerOn))

\* ---- state ----

Init ==
  /\ gameState = [grid |-> createEmptyGrid, targetSum |-> 0, selectedIndices |-> << >>,
                  score |-> 0, level |-> 1, gameOver |-> FALSE, mode |-> "classic",
                  timeLeft |-> TIME_MODE_SECONDS, isPaused |-> TRUE]
  /\ rendered = gameState
  /\ showMenu = TRUE
  /\ timerOn = FALSE
  /\ timerStale = FALSE
  /\ lastEvent = Event("mount", "none", NoPos)
  /\ ticksDelivered = -1
  /\ insertions = -1

\* a session in progress, rendered and unpaused, that has scored HighScoreStart points by
\* two-tile matches and holds one full bottom row
InitInProgress ==
  /\ \E mode \in {"classic", "time"}, target \in Targets,
        vals \in [SeedRowIdx -> [Cols -> TileValues]] :
       gameState = [InitialState(mode, target, SeedRows(vals)) EXCEPT !.score = HighScoreStart]
  /\ rendered = gameState
  /\ showMenu = FALSE
  /\ timerOn = TimerWanted(gameState)
  /\ timerStale = FALSE
  /\ lastEvent = Event("render", "none", NoPos)
  /\ ticksDelivered = -1
  /\ insertions = -1

\* ---- operations ----

\* menu buttons (any mode) and the game-over retry button (the rendered mode)
InitGame(mode) ==
  /\ \/ showMenu
     \/ ~showMenu /\ rendered.gameOver /\ mode = rendered.mode
  /\ \E target \in Targets, vals \in [SeedRowIdx -> [Cols -> TileValues]] :
       /\ gameState' = InitialState(mode, target, SeedRows(vals))
       /\ Commit(gameState', TRUE)
  /\ showMenu' = FALSE
  /\ lastEvent' = Event("initGame", mode, NoPos)
  /\ ticksDelivered' = 0
  /\ insertions' = IF mode = "time" THEN 0 ELSE -1

\* the "back to menu" buttons: setShowMenu(true)
ShowMenu ==
  /\ ~showMenu
  /\ showMenu' = TRUE
  /\ Commit(gameState, FALSE)
  /\ lastEvent' = Event("showMenu", "none", NoPos)
  /\ UNCHANGED <<gameState, ticksDelivered, insertions>>

\* the pause button of the left panel: isPaused: !p.isPaused
TogglePause ==
  /\ ~showMenu
  /\ gameState' = [gameState EXCEPT !.isPaused = ~gameState.isPaused]
  /\ Commit(gameState', FALSE)
  /\ lastEvent' = Event("togglePause", "none", NoPos)
  /\ insertions' = -1
  /\ UNCHANGED <<showMenu, ticksDelivered>>

\* the play button of the pause overlay: isPaused: false
Resume ==
  /\ ~showMenu
  /\ rendered.isPaused /\ ~rendered.gameOver
  /\ gameState' = [gameState EXCEPT !.isPaused = FALSE]
  /\ Commit(gameState', FALSE)
  /\ lastEvent' = Event("resume", "none", NoPos)
  /\ insertions' = -1
  /\ UNCHANGED <<showMenu, ticksDelivered>>

\* handleBlockClick(r, c): the guards read the rendered snapshot, the updater reads prev
HandleBlockClick(r, c) ==
  /\ ~showMenu
  /\ IF rendered.gameOver \/ rendered.isPaused
     THEN /\ lastEvent' = Event("click", "ignored", NoPos)
          /\ UNCHANGED <<gameState, rendered, timerOn, timerStale, ticksDelivered,
                         insertions>>
     ELSE IF r \notin Rows
     THEN \* gameState.grid[r] is undefined: reading [c] of it raises a TypeError
          /\ lastEvent' = Event("click", "throw", NoPos)
          /\ UNCHANGED <<gameState, rendered, timerOn, timerStale, ticksDelivered,
                         insertions>>
     ELSE IF c \notin Cols \/ rendered.grid[r][c] = NULL
     THEN /\ lastEvent' = Event("click", "ignored", NoPos)
          /\ UNCHANGED <<gameState, rendered, timerOn, timerStale, ticksDelivered,
                         insertions>>
     ELSE /\ \E newTarget \in TargetDraws(Outcome(gameState, r, c) = "MATCH"),
                  vals \in RowDraws(ClickInserts(gameState, r, c)) :
               gameState' = ClickUpdate(gameState, r, c, newTarget, vals)
          /\ gameState'.score <= ScoreCap(gameState.score)
          /\ Commit(gameState', FALSE)
          /\ lastEvent' = Event("click", Outcome(gameState, r, c), <<r, c>>)
          /\ ticksDelivered' = IF Outcome(gameState, r, c) = "MATCH" THEN -1 ELSE ticksDelivered
          /\ insertions' = IF Outcome(gameState, r, c) = "MATCH" THEN -1 ELSE insertions
  /\ UNCHANGED showMenu

\* one firing of the interval created by the timer effect
Tick ==
  /\ timerOn
  /\ rendered = gameState
  /\ \E vals \in RowDraws(TickInserts(gameState)) : gameState' = TickUpdate(gameState, vals)
  /\ lastEvent' = Event("tick", "none", NoPos)
  /\ ticksDelivered' = IF ticksDelivered \in 0 .. (TIME_MODE_SECONDS - 1)
                        THEN ticksDelivered + 1 ELSE -1
  /\ insertions' = IF insertions >= 0 /\ TickInserts(gameState)
                    THEN insertions + 1 ELSE insertions
  /\ UNCHANGED <<rendered, showMenu, timerOn, timerStale>>

\* the render scheduled by a tick's setGameState
Render ==
  /\ rendered # gameState
  /\ Commit(gameState, FALSE)
  /\ lastEvent' = Event("render", "none", NoPos)
  /\ UNCHANGED <<gameState, showMenu, ticksDelivered, insertions>>

Next ==
  \/ \E mode \in {"classic", "time"} : InitGame(mode)
  \/ ShowMenu
  \/ TogglePause
  \/ Resume
  \/ \E r \in ClickRows, c \in ClickCols : HandleBlockClick(r, c)
  \/ Tick
  \/ Render

Spec == Init /\ [][Next]_vars

\* the same program, followed from a session in progress
SpecInProgress == InitInProgress /\ [][Next]_vars

\* the same program with the scheduling the browser provides: an interval that is installed
\* keeps firing, and a render scheduled by a state update is carried out
SpecFair == Init /\ [][Next]_vars /\ WF_vars(Tick) /\ WF_vars(Render)

TypeOK ==
  /\ gameState.score \in 0 .. (HighScoreStart + MaxScore)
  /\ gameState.timeLeft \in 1 .. TIME_MODE_SECONDS
  /\ showMenu \in BOOLEAN /\ timerOn \in BOOLEAN /\ timerStale \in BOOLEAN
  /\ insertions \in -1 .. (GRID_ROWS - INITIAL_ROWS)


\* ---- vocabulary of the properties ----

\* the step just taken ran the updater of handleBlockClick with the given outcome
ClickOutcome(o) == lastEvent'.op = "click" /\ lastEvent'.outcome = o

\* the state reached was produced by the updater of handleBlockClick with the given outcome
AfterClick(o) == lastEvent.op = "click" /\ lastEvent.outcome = o

\* the selection after the toggle of the step just taken
PostToggle == Toggle(gameState.selectedIndices, lastEvent'.pos[1], lastEvent'.pos[2])

\* the grid a classic-mode MATCH hands to the row insertion: cleared, then compacted
PostClearGrid == ApplyGravity(ClearSelected(gameState.grid, PostToggle))

\* a tick that found the countdown over
TickAttempt == lastEvent'.op = "tick" /\ gameState.timeLeft <= 1

ClassicMatch == ClickOutcome("MATCH") /\ gameState.mode = "classic"

\* g2 is g with every row moved up by one and a full new bottom row
ShiftedIn(g, g2) ==
  /\ \A r \in Rows : r < GRID_ROWS - 1 => g2[r] = g[r + 1]
  /\ \A c \in Cols : g2[GRID_ROWS - 1][c] \in TileValues

\* an insertion attempted on g is refused exactly when row 0 of g is occupied; refused, it
\* leaves g as the grid and ends the game, paused
RefusedIffRow0(g) ==
  IF \E c \in Cols : g[0][c] # NULL
  THEN gameState'.grid = g /\ gameState'.gameOver /\ gameState'.isPaused
  ELSE ShiftedIn(g, gameState'.grid)

\* C1: every row insertion attempt (a tick at timeLeft <= 1, a classic-mode MATCH) is
\* refused iff row 0 of the grid it is applied to is occupied; a refused insertion leaves
\* that grid unchanged and sets gameOver and paused.
C1_RefusedIffRowZeroOccupied ==
  [][/\ TickAttempt => RefusedIffRow0(gameState.grid)
     /\ ClassicMatch => RefusedIffRow0(PostClearGrid)]_vars

\* a tick has just been refused: the game is over and the render has not happened yet
C1_Witness ==
  /\ lastEvent.op = "tick"
  /\ gameState.gameOver /\ gameState.isPaused
  /\ ~rendered.gameOver
  /\ gameState.grid = rendered.grid

\* the tiles of column col of grid that are not at a position of sel, top to bottom
KeptTiles(grid, sel, col) ==
  LET cell(i) == IF IsSelected(sel, i - 1, col) THEN NULL ELSE grid[i - 1][col]
  IN SelectSeq([i \in 1 .. GRID_ROWS |-> cell(i)], IsBlock)

\* C2 as stated: after a MATCH the selection is empty and every position of the matching
\* selection holds an empty cell in the resulting grid.
C2_SelectedPositionsEmpty ==
  [][ClickOutcome("MATCH") =>
       /\ gameState'.selectedIndices = << >>
       /\ \A i \in 1 .. Len(PostToggle) :
            gameState'.grid[PostToggle[i].r][PostToggle[i].c] = NULL]_vars

\* C2 amended: after a MATCH the selection is empty and every column of the resulting grid
\* holds, top to bottom, exactly the tiles of that column that were not in the matching
\* selection, followed by one new tile when a classic-mode insertion succeeded.
C2_MatchedTilesRemoved ==
  [][ClickOutcome("MATCH") =>
       /\ gameState'.selectedIndices = << >>
       /\ \A col \in Cols :
            LET kept == KeptTiles(gameState.grid, PostToggle, col)
                now  == ColumnBlocks(gameState'.grid, col)
            IN IF gameState.mode = "classic" /\ ~gameState'.gameOver
               THEN /\ Len(now) = Len(kept) + 1
                    /\ SubSeq(now, 1, Len(kept)) = kept
                    /\ now[Len(now)] = gameState'.grid[GRID_ROWS - 1][col]
               ELSE now = kept]_vars

\* a MATCH in timed mode that left tiles on the board
C2_Witness ==
  /\ AfterClick("MATCH")
  /\ gameState.mode = "time"
  /\ gameState.selectedIndices = << >>
  /\ \E c \in Cols : gameState.grid[GRID_ROWS - 1][c] # NULL

\* C3: a MATCH with n selected tiles adds n * SCORE_PER_BLOCK, plus SCORE_BONUS_COMBO iff
\* n > 3; PARTIAL, OVERFLOW, tick, pause toggle and ignored clicks leave the score alone.
C3_ScoreOnMatchOnly ==
  [][/\ ClickOutcome("MATCH") =>
          LET n == Len(PostToggle)
          IN gameState'.score - gameState.score =
               IF n > 3 THEN n * SCORE_PER_BLOCK + SCORE_BONUS_COMBO ELSE n * SCORE_PER_BLOCK
     /\ (~ClickOutcome("MATCH") /\ lastEvent'.op # "initGame") =>
          gameState'.score = gameState.score]_vars

\* a four-tile MATCH has been scored with the combo bonus
C3_Witness ==
  /\ AfterClick("MATCH")
  /\ gameState.score = 4 * SCORE_PER_BLOCK + SCORE_BONUS_COMBO

\* C4: an OVERFLOW empties the selection and leaves score, level, target, grid, timeLeft,
\* paused and gameOver (and the mode) unchanged.
C4_OverflowOnlyClearsSelection ==
  [][ClickOutcome("OVERFLOW") =>
       /\ gameState'.selectedIndices = << >>
       /\ gameState' = [gameState EXCEPT !.selectedIndices = << >>]]_vars

\* an OVERFLOW happened in a session that has a score and a running countdown
C4_Witness ==
  /\ AfterClick("OVERFLOW")
  /\ gameState.score > 0
  /\ gameState.timeLeft < TIME_MODE_SECONDS
  /\ gameState.selectedIndices = << >>

\* C5 as stated: a select issued while the current state is paused or over, the state just
\* produced by a tick included, leaves the whole session state unchanged.
C5_SelectIsNoOpWhilePausedOrOver ==
  [][(lastEvent'.op = "click" /\ (gameState.isPaused \/ gameState.gameOver)) =>
       gameState' = gameState]_vars

\* C6 as stated: select never raises, whatever the position, and a select whose position
\* is outside the grid or names an empty cell leaves the session state unchanged.
C6_SelectNeverFails ==
  [][lastEvent'.op = "click" =>
       /\ lastEvent'.outcome # "throw"
       /\ lastEvent'.pos = NoPos => gameState' = gameState]_vars

\* C7: in classic mode every MATCH attempts a row insertion on the cleared and compacted
\* grid: with row 0 of that grid empty the row is inserted and gameOver stays false,
\* otherwise gameOver and paused become true; no other transition of a classic session
\* changes the grid.
C7_ClassicInsertsOnMatchOnly ==
  [][/\ ClassicMatch =>
          IF \A c \in Cols : PostClearGrid[0][c] = NULL
          THEN ShiftedIn(PostClearGrid, gameState'.grid) /\ ~gameState'.gameOver
          ELSE gameState'.gameOver /\ gameState'.isPaused
     /\ (gameState.mode = "classic" /\ ~ClickOutcome("MATCH") /\ lastEvent'.op # "initGame") =>
          gameState'.grid = gameState.grid]_vars

\* a classic-mode MATCH has inserted its row and the game goes on
C7_Witness ==
  /\ AfterClick("MATCH")
  /\ gameState.mode = "classic"
  /\ ~gameState.gameOver
  /\ \A c \in Cols : gameState.grid[GRID_ROWS - 1][c] # NULL
  /\ gameState.score > 0

\* C8 as stated: in timed mode a MATCH neither inserts a row nor changes the number of
\* ticks left until the next insertion, and only ticks insert rows.
C8_MatchKeepsCountdown ==
  [][/\ (gameState.mode = "time" /\ ClickOutcome("MATCH")) =>
          /\ gameState'.grid = PostClearGrid
          /\ gameState'.timeLeft = gameState.timeLeft
     /\ (gameState.mode = "time" /\ lastEvent'.op \notin {"tick", "initGame"}
           /\ ~ClickOutcome("MATCH")) =>
          gameState'.grid = gameState.grid]_vars

\* ticksDelivered ticks after initGame, none of them preceded by a MATCH: the countdown
\* stands at TIME_MODE_SECONDS - ticksDelivered, and the TIME_MODE_SECONDS-th tick has
\* inserted a row above the seeded ones and restored the countdown
FreshCountdown ==
  /\ ticksDelivered \in 0 .. (TIME_MODE_SECONDS - 1) =>
       gameState.timeLeft = TIME_MODE_SECONDS - ticksDelivered
  /\ ticksDelivered = TIME_MODE_SECONDS =>
       /\ gameState.timeLeft = TIME_MODE_SECONDS
       /\ INITIAL_ROWS < GRID_ROWS =>
            \A c \in Cols : gameState.grid[GRID_ROWS - INITIAL_ROWS - 1][c] # NULL

\* C9: a tick at timeLeft > 1 decrements timeLeft and changes nothing else; a tick at
\* timeLeft <= 1 attempts a row insertion and sets timeLeft to TIME_MODE_SECONDS; so in a
\* fresh session without MATCH, TIME_MODE_SECONDS - 1 ticks leave timeLeft = 1 and the next
\* tick inserts a row and restores timeLeft.
C9_TickCountdown ==
  [][/\ lastEvent'.op = "tick" =>
          IF gameState.timeLeft > 1
          THEN gameState' = [gameState EXCEPT !.timeLeft = gameState.timeLeft - 1]
          ELSE /\ gameState'.timeLeft = TIME_MODE_SECONDS
               /\ RefusedIffRow0(gameState.grid)
               /\ gameState'.selectedIndices = gameState.selectedIndices
               /\ gameState'.targetSum = gameState.targetSum
               /\ gameState'.score = gameState.score
               /\ gameState'.level = gameState.level
               /\ gameState'.mode = gameState.mode
     /\ FreshCountdown']_vars

\* the TIME_MODE_SECONDS-th tick of a fresh session has just inserted a row
C9_Witness ==
  /\ lastEvent.op = "tick"
  /\ ticksDelivered = TIME_MODE_SECONDS
  /\ gameState.timeLeft = TIME_MODE_SECONDS
  /\ ~gameState.gameOver
  /\ \A c \in Cols : gameState.grid[GRID_ROWS - INITIAL_ROWS - 1][c] # NULL

\* C10 as stated: once gameOver is true it stays true, and grid and score stay unchanged,
\* under every select, tick and pause toggle; only initGame makes it false again.
C10_GameOverIsFinal ==
  [][(gameState.gameOver /\ lastEvent'.op # "initGame") =>
       /\ gameState'.gameOver
       /\ gameState'.grid = gameState.grid
       /\ gameState'.score = gameState.score]_vars

\* C11 as stated: in every reachable state gameOver implies paused.
C11_GameOverImpliesPaused == gameState.gameOver => gameState.isPaused

\* C12: whatever the state it is called in, initGame(mode) produces the state of a new
\* session: the bottom INITIAL_ROWS rows full of tiles and the other rows empty, a target
\* within [TARGET_MIN, TARGET_MAX], no selection, score 0, level 1, not over, not paused,
\* the full countdown and the mode of the call.
C12_ResetIsStart ==
  [][lastEvent'.op = "initGame" =>
       /\ \A r \in Rows, c \in Cols :
            IF r >= GRID_ROWS - INITIAL_ROWS
            THEN gameState'.grid[r][c] \in 1 .. 9
            ELSE gameState'.grid[r][c] = NULL
       /\ gameState'.targetSum >= TARGET_MIN /\ gameState'.targetSum <= TARGET_MAX
       /\ gameState'.selectedIndices = << >>
       /\ gameState'.score = 0
       /\ gameState'.level = 1
       /\ ~gameState'.gameOver
       /\ ~gameState'.isPaused
       /\ gameState'.timeLeft = TIME_MODE_SECONDS
       /\ gameState'.mode = lastEvent'.outcome]_vars

\* a timed session was reset into timed mode while it was running: the new session is
\* ticked by the interval of the previous one
C12_Witness ==
  /\ lastEvent.op = "initGame"
  /\ gameState.mode = "time"
  /\ timerOn /\ timerStale
  /\ gameState.score = 0 /\ ~gameState.isPaused

\* C13: in every reachable state score >= 0 and level = floor(score / 500) + 1.
C13_LevelFollowsScore ==
  /\ gameState.score >= 0
  /\ gameState.level = (gameState.score \div 500) + 1

\* a MATCH has taken the score to 500 or more
C13_Witness ==
  /\ AfterClick("MATCH")
  /\ gameState.score >= 500
  /\ gameState.level = 2

\* a session on screen that is neither paused nor over
Playing == ~showMenu /\ ~gameState.isPaused /\ ~gameState.gameOver

\* the state after select(r, c) twice in a row, for the draws of the two calls
TwiceSelected(r, c, t1, v1, t2, v2) ==
  ClickResult(ClickResult(gameState, rendered, r, c, t1, v1),
              ClickRendered(gameState, rendered, r, c, t1, v1), r, c, t2, v2)

\* the row Math.random is not asked for
NoDraw == [c \in Cols |-> 1]

\* C14 as stated: from every unpaused, not-over state and for every position, select
\* applied twice in a row returns the selection to its prior value, in the same order, and
\* leaves score and grid unchanged.
C14_SelectTwiceRestores ==
  Playing =>
    \A r \in Rows, c \in Cols, t1 \in Targets, t2 \in Targets,
       v1 \in [Cols -> TileValues], v2 \in [Cols -> TileValues] :
      LET s2 == TwiceSelected(r, c, t1, v1, t2, v2)
      IN /\ s2.selectedIndices = gameState.selectedIndices
         /\ s2.score = gameState.score
         /\ s2.grid = gameState.grid

\* C14 amended: from every unpaused, not-over state and for every position, select applied
\* twice in a row, neither call resolving as a MATCH or an OVERFLOW, leaves score and grid
\* unchanged and the same positions selected: in the prior order when the position was not
\* selected, with the position moved to the end when it was; two ignored calls change nothing.
C14_SelectTwicePartial ==
  Playing =>
    \A r \in Rows, c \in Cols :
      LET s1 == ClickResult(gameState, rendered, r, c, TARGET_MIN, NoDraw)
          s2 == TwiceSelected(r, c, TARGET_MIN, NoDraw, TARGET_MIN, NoDraw)
          others == LET keep(idx) == ~(idx.r = r /\ idx.c = c)
                    IN SelectSeq(gameState.selectedIndices, keep)
      IN IF ~ClickRuns(rendered, r, c)
         THEN s2 = gameState
         ELSE (Outcome(gameState, r, c) = "PARTIAL" /\ Outcome(s1, r, c) = "PARTIAL") =>
                /\ s2.score = gameState.score
                /\ s2.grid = gameState.grid
                /\ s2.selectedIndices =
                     IF \E i \in 1 .. Len(gameState.selectedIndices) :
                          gameState.selectedIndices[i] = [r |-> r, c |-> c]
                     THEN Append(others, [r |-> r, c |-> c])
                     ELSE gameState.selectedIndices

\* a first select has put a position behind another one; the session is still playing
C14_Witness ==
  /\ Playing
  /\ AfterClick("PARTIAL")
  /\ Len(gameState.selectedIndices) >= 2
  /\ gameState.selectedIndices[Len(gameState.selectedIndices)] =
       [r |-> lastEvent.pos[1], c |-> lastEvent.pos[2]]

\* C15 as stated: after initGame and after a pause no tick of an interval created before
\* that operation is applied to the session state.
C15_NoStaleTick ==
  /\ lastEvent.op = "tick" => ~timerStale
  /\ (rendered = gameState /\ gameState.isPaused) => ~timerOn

\* the tiles of column col of grid, top to bottom
TilesOf(grid, col) == KeptTiles(grid, << >>, col)

\* an insertion attempted on g is all or nothing: refused, the grid is g; done, every row
\* of g has moved up by one, the bottom row is C new tiles with values in 1..9, the grid is
\* still R x C, and every column holds its former tiles, in order, above the new one
AllOrNothing(g) ==
  IF \E c \in Cols : g[0][c] # NULL
  THEN gameState'.grid = g
  ELSE /\ \A r \in 0 .. (GRID_ROWS - 2) : gameState'.grid[r] = g[r + 1]
       /\ \A c \in Cols : gameState'.grid[GRID_ROWS - 1][c] \in 1 .. 9
       /\ DOMAIN gameState'.grid = 0 .. (GRID_ROWS - 1)
       /\ \A r \in 0 .. (GRID_ROWS - 1) : DOMAIN gameState'.grid[r] = 0 .. (GRID_COLS - 1)
       /\ \A c \in Cols :
            TilesOf(gameState'.grid, c) =
              Append(TilesOf(g, c), gameState'.grid[GRID_ROWS - 1][c])

\* C16: a row insertion is atomic and tile-preserving: done, new row i is old row i + 1 for
\* i in [0, R-2], row R-1 is C new tiles with values in [1, 9], the grid is still R x C and
\* every former tile is still there once; refused, nothing of the grid changes.
C16_InsertionAllOrNothing ==
  [][/\ TickAttempt => AllOrNothing(gameState.grid)
     /\ ClassicMatch => AllOrNothing(PostClearGrid)]_vars

\* a tick has inserted a row and so moved tiles into row 0; the render is still to come
C16_Witness ==
  /\ lastEvent.op = "tick"
  /\ ~gameState.gameOver
  /\ gameState.timeLeft = TIME_MODE_SECONDS
  /\ \A c \in Cols : rendered.grid[0][c] = NULL
  /\ \E c \in Cols : gameState.grid[0][c] # NULL
  /\ gameState.grid[0] = rendered.grid[1]

\* C17: the gravity step of a MATCH compacts every column on its own: the column's
\* remaining tiles keep their order and lie in the bottom-most rows under the empty cells,
\* none is lost, duplicated or moved to another column, and gravity applied again changes
\* nothing; the grid of the resulting state is that compacted grid (with the classic row
\* inserted below it when the insertion is done).
C17_GravityStableCompaction ==
  [][ClickOutcome("MATCH") =>
       LET cleared == ClearSelected(gameState.grid, PostToggle)
           fallen  == ApplyGravity(cleared)
       IN /\ \A col \in Cols :
               /\ TilesOf(fallen, col) = KeptTiles(gameState.grid, PostToggle, col)
               /\ \A r \in Rows : fallen[r][col] = NULL =>
                    \A above \in Rows : above < r => fallen[above][col] = NULL
          /\ ApplyGravity(fallen) = fallen
          /\ IF gameState.mode = "classic" /\ ~gameState'.gameOver
             THEN \A r \in Rows : r < GRID_ROWS - 1 => gameState'.grid[r] = fallen[r + 1]
             ELSE gameState'.grid = fallen]_vars

\* a timed-mode MATCH cleared a bottom tile and the tile above it fell into its place
C17_Witness ==
  /\ AfterClick("MATCH")
  /\ gameState.mode = "time"
  /\ lastEvent.pos[1] = GRID_ROWS - 1
  /\ gameState.grid[GRID_ROWS - 1][lastEvent.pos[2]] # NULL
  /\ gameState.grid[0][lastEvent.pos[2]] = NULL

\* C18 as stated: whenever a transition rewrites the grid, the selection is empty in the
\* resulting state.
C18_RewriteClearsSelection ==
  [][gameState'.grid # gameState.grid => gameState'.selectedIndices = << >>]_vars

\* C19 as stated: in every state of a started session the values at the selected positions
\* sum to less than the target.
C19_SelectedSumBelowTarget ==
  lastEvent.op # "mount" =>
    SumOf(gameState.selectedIndices, gameState.grid) < gameState.targetSum

\* C20: in every reachable state every column is compact: no occupied cell has an empty
\* cell below it in the same column.
C20_ColumnsCompact ==
  \A r \in Rows, c \in Cols :
    (r < GRID_ROWS - 1 /\ gameState.grid[r][c] # NULL) => gameState.grid[r + 1][c] # NULL

\* a classic-mode MATCH has left columns of different heights, one of them up to row 0
C20_Witness ==
  /\ AfterClick("MATCH")
  /\ gameState.mode = "classic"
  /\ \E c \in Cols : gameState.grid[0][c] # NULL
  /\ \E c \in Cols : gameState.grid[0][c] = NULL

\* a timed session since initGame('time') without MATCH and without pause toggle
TimedRun == insertions >= 0

\* the session of the state before has ended: a MATCH, a pause toggle or a reset
RunEnded == insertions = -1 \/ lastEvent.op = "initGame"

\* C21: a timed session that stays unpaused and has no MATCH reaches gameOver when ticks
\* are delivered fairly; exactly GRID_ROWS - INITIAL_ROWS tick insertions succeed in it, row
\* 0 is then occupied and the next insertion that is due is refused with gameOver; once
\* gameOver is true no tick is delivered any more, so none changes the state.
C21_TimedRunEndsInGameOver ==
  /\ TimedRun ~> (gameState.gameOver \/ RunEnded)
  /\ [](TimedRun =>
         /\ insertions <= GRID_ROWS - INITIAL_ROWS
         /\ (insertions = GRID_ROWS - INITIAL_ROWS) <=> RowOccupied(gameState.grid, 0)
         /\ gameState.gameOver => (insertions = GRID_ROWS - INITIAL_ROWS))
  /\ [][/\ (TimedRun /\ insertions = GRID_ROWS - INITIAL_ROWS /\ TickAttempt) =>
             (/\ gameState'.gameOver
              /\ gameState'.grid = gameState.grid
              /\ insertions' = insertions)
        /\ gameState.gameOver => lastEvent'.op # "tick"]_vars

\* the session has run into gameOver by ticks alone, the game-over state is rendered and
\* the interval is cleared
C21_Witness ==
  /\ insertions = GRID_ROWS - INITIAL_ROWS
  /\ gameState.gameOver
  /\ rendered = gameState
  /\ lastEvent.op = "render"
  /\ ~timerOn

====
